---- MODULE Spec2Model ----
(***************************************************************************)
(* Model of util/ntt.py: the NTTContext (number/Fermat theoretic           *)
(* transform over Z_a[x]/(x^d + 1)) and FFTContext (complex FFT and        *)
(* canonical embedding) classes.                                           *)
(*                                                                         *)
(* A Python list is a TLA+ sequence; Python index i is At(s, i) = s[i+1].  *)
(* A call's outcome is a record: kind is "ok" or the name of the exception *)
(* raised, value the returned list, after the content of the list object   *)
(* passed in when the call returns, self the context object when the call  *)
(* returns, rou_reads / rot_reads the indices at which the call read the   *)
(* twiddle table / rot_group.                                              *)
(*                                                                         *)
(* Complex numbers are exact elements of Q(zeta), zeta = e^(2 pi i / M):   *)
(* [num |-> <<c_0 .. c_(M/2-1)>>, den |-> k] is (sum c_j zeta^j) / k, with *)
(* zeta^(M/2) = -1.                                                        *)
(***************************************************************************)
EXTENDS Integers, Sequences, FiniteSets, TLC

\* ------------------------------------------------------------------ bounds
MaxCoeff == 1        \* caller coefficients are drawn from 0..MaxCoeff
MaxDegree == 4       \* poly_degree arguments are drawn from 0..MaxDegree
MaxCalls == 2        \* transform calls a caller chains on one loaded input

None == -1           \* stands for Python's None as the root_of_unity argument
Moduli == {17, 51}
RootArgs == {None, 0, 2, 4}
Lens == {1, 2, 4}    \* lengths of the sequences callers pass
Ms == {4, 8, 16}     \* FFT vector lengths

\* ------------------------------------------------------------ Python lists
At(s, i) == s[i + 1]

InRange(s, i) == 0 <= i /\ i < Len(s)

RECURSIVE Pow2(_)
Pow2(k) == IF k <= 0 THEN 1 ELSE 2 * Pow2(k - 1)

\* int(log(n, 2)) for n >= 1
RECURSIVE IntLog2(_)
IntLog2(n) == IF n <= 1 THEN 0 ELSE 1 + IntLog2(n \div 2)

\* x & y on Python's unbounded two's-complement integers, x >= 0
RECURSIVE BitAnd(_, _)
BitAnd(x, y) ==
    IF x = 0 THEN 0
    ELSE (x % 2) * (y % 2) + 2 * BitAnd(x \div 2, y \div 2)

\* range(a, b, s) as a sequence
RECURSIVE Range(_, _, _)
Range(a, b, s) == IF a >= b THEN <<>> ELSE <<a>> \o Range(a + s, b, s)

RECURSIVE Flatten(_)
Flatten(ss) == IF ss = <<>> THEN <<>> ELSE Head(ss) \o Flatten(Tail(ss))

Ok(v) == [kind |-> "ok", value |-> v]
Raise(e) == [kind |-> e, value |-> <<>>]

Ret(out, coeffs, self, rr, tr) ==
    [kind |-> out.kind, value |-> out.value, after |-> coeffs, self |-> self,
     rou_reads |-> rr, rot_reads |-> tr]

\* --------------------------------------------- util.bit_operations
RECURSIVE reverse_bits(_, _)
reverse_bits(value, width) ==
    IF width = 0 THEN 0
    ELSE (value % 2) * Pow2(width - 1) + reverse_bits(value \div 2, width - 1)

bit_reverse_vec(values) ==
    LET Permute(width) ==
          [i \in 1..Len(values) |-> At(values, reverse_bits(i - 1, width))]
    IN Permute(IntLog2(Len(values)))

\* --------------------------------------------- util.number_theory
RECURSIVE ModExp(_, _, _)
ModExp(w, k, a) == IF k = 0 THEN 1 % a ELSE (w * ModExp(w, k - 1, a)) % a

\* exact multiplicative order of w modulo a, 0 when no power of w is 1
Order(w, a) ==
    LET ks == {k \in 1..a : ModExp(w, k, a) = 1 % a}
    IN IF ks = {} THEN 0 ELSE CHOOSE k \in ks : \A j \in ks : k <= j

\* the elements root_of_unity(order, modulus) may return; {} when it fails
root_of_unity(order, modulus) ==
    IF order = 0 \/ (modulus - 1) % order # 0 THEN {}
    ELSE {w \in 1..(modulus - 1) : Order(w, modulus) = order}

Invertible(x, modulus) == \E y \in 0..(modulus - 1) : (x * y) % modulus = 1

mod_inv(x, modulus) == CHOOSE y \in 0..(modulus - 1) : (x * y) % modulus = 1

\* ------------------------------------------------------------ NTTContext
PowerTable(root, n, a) == [i \in 1..n |-> ModExp(root, i - 1, a)]

\* precompute_ntt: the tables, or the collaborator failure that stops it
precompute_ntt(degree, coeff_modulus, root) ==
    IF ~Invertible(root, coeff_modulus)
    THEN [cls |-> "error", error |-> "NotInvertible",
          steps |-> <<"roots_of_unity", "mod_inv">>]
    ELSE IF ~Invertible(degree, coeff_modulus)
    THEN [cls |-> "error", error |-> "NotInvertible",
          steps |-> <<"roots_of_unity", "mod_inv", "roots_of_unity_inv", "mod_inv">>]
    ELSE
      LET Tables(roots_of_unity_inv, poly_degree_inv, width) ==
            [cls |-> "NTTContext",
             coeff_modulus |-> coeff_modulus,
             degree |-> degree,
             roots_of_unity |-> PowerTable(root, degree, coeff_modulus),
             roots_of_unity_inv |-> roots_of_unity_inv,
             scaled_rou_inv |->
                 [i \in 1..degree |->
                     (poly_degree_inv * roots_of_unity_inv[i]) % coeff_modulus],
             reversed_bits |->
                 [i \in 1..degree |-> reverse_bits(i - 1, width) % degree]]
      IN Tables(PowerTable(mod_inv(root, coeff_modulus), degree, coeff_modulus),
                mod_inv(degree, coeff_modulus), IntLog2(degree))

\* __init__ once the root is known (w: the collaborator's answer, used only
\* when no root was supplied)
NTTContext_init(poly_degree, coeff_modulus, root_arg, w) ==
    IF BitAnd(poly_degree, poly_degree - 1) # 0
    THEN [cls |-> "error", error |-> "AssertionError", steps |-> <<>>]
    ELSE IF root_arg = None \/ root_arg = 0
    THEN IF w = None
         THEN [cls |-> "error", error |-> "NoSuchRoot",
               steps |-> <<"root_of_unity">>]
         ELSE precompute_ntt(poly_degree, coeff_modulus, w)
    ELSE precompute_ntt(poly_degree, coeff_modulus, root_arg)

\* the constructor asking for a root of order d instead of 2d
RootChoices_d(poly_degree, coeff_modulus, root_arg) ==
    IF root_arg # None /\ root_arg # 0 THEN {None}
    ELSE IF BitAnd(poly_degree, poly_degree - 1) # 0 THEN {None}
    ELSE LET Answers(ws) == IF ws = {} THEN {None} ELSE ws
         IN Answers(root_of_unity(poly_degree, coeff_modulus))

\* the collaborator's possible answers for a constructor call
RootChoices(poly_degree, coeff_modulus, root_arg) ==
    IF root_arg # None /\ root_arg # 0 THEN {None}
    ELSE IF BitAnd(poly_degree, poly_degree - 1) # 0 THEN {None}
    ELSE LET Answers(ws) == IF ws = {} THEN {None} ELSE ws
         IN Answers(root_of_unity(2 * poly_degree, coeff_modulus))

\* result = [coeffs[reversed_bits[i]] for i in range(num_coeffs)]
Gather(coeffs, reversed_bits) ==
    IF \A i \in 0..(Len(coeffs) - 1) :
          InRange(reversed_bits, i) /\ InRange(coeffs, At(reversed_bits, i))
    THEN Ok([i \in 1..Len(coeffs) |-> At(coeffs, At(reversed_bits, i - 1))])
    ELSE Raise("IndexError")

\* the butterflies of ntt in loop order
NttStage(logm, log_num_coeffs, js) ==
    Flatten([jj \in 1..Len(js) |->
        [ii \in 1..Pow2(logm - 1) |->
            [even |-> js[jj] + (ii - 1),
             odd |-> js[jj] + (ii - 1) + Pow2(logm - 1),
             idx |-> (ii - 1) * Pow2(1 + log_num_coeffs - logm)]]])

NttSteps(num_coeffs) ==
    Flatten([logm \in 1..IntLog2(num_coeffs) |->
        NttStage(logm, IntLog2(num_coeffs), Range(0, num_coeffs, Pow2(logm)))])

RECURSIVE NttLoop(_, _, _, _, _)
NttLoop(result, steps, k, rou, a) ==
    IF k > Len(steps) THEN Ok(result)
    ELSE LET Butterfly(s, omega_factor) ==
                 NttLoop([result EXCEPT
                             ![s.even + 1] = (At(result, s.even) + omega_factor) % a,
                             ![s.odd + 1] = (At(result, s.even) - omega_factor) % a],
                         steps, k + 1, rou, a)
             Step(s) ==
                 IF ~(InRange(rou, s.idx) /\ InRange(result, s.odd)
                      /\ InRange(result, s.even))
                 THEN Raise("IndexError")
                 ELSE Butterfly(s, (At(rou, s.idx) * At(result, s.odd)) % a)
         IN Step(steps[k])

StepIdx(steps) == {steps[k].idx : k \in 1..Len(steps)}

ntt(self, coeffs, rou) ==
    LET num_coeffs == Len(coeffs) IN
    IF Len(rou) # num_coeffs
    THEN \* the assertion's message, str + int, raises before AssertionError can
         Ret(Raise("TypeError"), coeffs, self, {}, {})
    ELSE LET Run(g, steps) ==
                 IF g.kind # "ok" THEN Ret(g, coeffs, self, {}, {})
                 ELSE Ret(NttLoop(g.value, steps, 1, rou, self.coeff_modulus),
                          coeffs, self, StepIdx(steps), {})
         IN Run(Gather(coeffs, self.reversed_bits), NttSteps(num_coeffs))

\* ftt_fwd without the twist by w^i (a plain cyclic transform)
ftt_fwd_untwisted(self, coeffs) ==
    LET num_coeffs == Len(coeffs) IN
    IF num_coeffs # self.degree
    THEN Ret(Raise("AssertionError"), coeffs, self, {}, {})
    ELSE LET Out(r) == Ret(r, coeffs, r.self, r.rou_reads, {})
         IN Out(ntt(self, [i \in 1..num_coeffs |-> coeffs[i] % self.coeff_modulus],
                    self.roots_of_unity))

ftt_fwd(self, coeffs) ==
    LET num_coeffs == Len(coeffs) IN
    IF num_coeffs # self.degree
    THEN Ret(Raise("AssertionError"), coeffs, self, {}, {})
    ELSE LET Out(r) == Ret(r, coeffs, r.self, r.rou_reads, {})
         IN Out(ntt(self,
                    [i \in 1..num_coeffs |->
                        (coeffs[i] * self.roots_of_unity[i]) % self.coeff_modulus],
                    self.roots_of_unity))

\* ftt_inv scaling by w^-i only, without the factor 1/d
ftt_inv_unscaled(self, coeffs) ==
    LET num_coeffs == Len(coeffs) IN
    IF num_coeffs # self.degree
    THEN Ret(Raise("AssertionError"), coeffs, self, {}, {})
    ELSE LET Scale(to_scale_down) ==
                 IF to_scale_down.kind # "ok" THEN to_scale_down
                 ELSE Ret(Ok([i \in 1..num_coeffs |->
                                (to_scale_down.value[i] * self.roots_of_unity_inv[i])
                                    % self.coeff_modulus]),
                          to_scale_down.after, to_scale_down.self,
                          to_scale_down.rou_reads, {})
         IN Scale(ntt(self, coeffs, self.roots_of_unity_inv))

ftt_inv(self, coeffs) ==
    LET num_coeffs == Len(coeffs) IN
    IF num_coeffs # self.degree
    THEN Ret(Raise("AssertionError"), coeffs, self, {}, {})
    ELSE LET Scale(to_scale_down) ==
                 IF to_scale_down.kind # "ok" THEN to_scale_down
                 ELSE Ret(Ok([i \in 1..num_coeffs |->
                                (to_scale_down.value[i] * self.scaled_rou_inv[i])
                                    % self.coeff_modulus]),
                          to_scale_down.after, to_scale_down.self,
                          to_scale_down.rou_reads, {})
         IN Scale(ntt(self, coeffs, self.roots_of_unity_inv))

\* --------------------------------------------------- complex numbers
RECURSIVE SumTo(_, _)
SumTo(f, n) == IF n = 0 THEN 0 ELSE f[n] + SumTo(f, n - 1)

CxAdd(x, y) ==
    IF x.den = y.den
    THEN [num |-> [k \in 1..Len(x.num) |-> x.num[k] + y.num[k]], den |-> x.den]
    ELSE [num |-> [k \in 1..Len(x.num) |-> x.num[k] * y.den + y.num[k] * x.den],
          den |-> x.den * y.den]

CxSub(x, y) ==
    IF x.den = y.den
    THEN [num |-> [k \in 1..Len(x.num) |-> x.num[k] - y.num[k]], den |-> x.den]
    ELSE [num |-> [k \in 1..Len(x.num) |-> x.num[k] * y.den - y.num[k] * x.den],
          den |-> x.den * y.den]

\* product in Z[zeta]/(zeta^H + 1), H = Len(x.num)
CxMulH(x, y, H) ==
    [num |-> [k \in 1..H |->
                SumTo([i \in 1..H |->
                         IF i <= k THEN x.num[i] * y.num[k - i + 1]
                         ELSE 0 - x.num[i] * y.num[H + k - i + 1]], H)],
     den |-> x.den * y.den]

CxMul(x, y) == CxMulH(x, y, Len(x.num))

CxDiv(x, n) == [num |-> x.num, den |-> x.den * n]

CxEq(x, y) == \A k \in 1..Len(x.num) : x.num[k] * y.den = y.num[k] * x.den

\* SeqEq: two lists of complex numbers are equal element for element
CxSeqEq(xs, ys) ==
    /\ Len(xs) = Len(ys)
    /\ \A k \in 1..Len(xs) : CxEq(xs[k], ys[k])

\* complex(cos(2 pi i / M), sin(2 pi i / M)) = zeta^i
RootOfUnity(i, M) ==
    [num |-> [k \in 1..(M \div 2) |->
                IF k - 1 = i % (M \div 2)
                THEN (IF (i % M) >= (M \div 2) THEN -1 ELSE 1)
                ELSE 0],
     den |-> 1]

\* ------------------------------------------------------------ FFTContext
RECURSIVE RotGroup(_, _)
RotGroup(n, M) ==
    IF n = 0 THEN <<>>
    ELSE IF n = 1 THEN <<1>>
    ELSE LET Next5(prev) == Append(prev, (5 * prev[n - 1]) % M)
         IN Next5(RotGroup(n - 1, M))

FFTContext_init(M) ==
    LET Tables(Nh, width) ==
          [cls |-> "FFTContext",
           M |-> M,
           roots_of_unity |-> [i \in 1..(M + 1) |-> RootOfUnity(i - 1, M)],
           rot_group |-> RotGroup(Nh, M),
           reversed_bits |-> [i \in 1..Nh |-> reverse_bits(i - 1, width) % Nh]]
    IN Tables(M \div 4, IntLog2(M \div 4))

\* the butterfly (u, v) -> (u + v w, u - v w) of fft, fft_fwd, fft_inv, emb
RECURSIVE CxLoop(_, _, _, _)
CxLoop(result, steps, k, rou) ==
    IF k > Len(steps) THEN Ok(result)
    ELSE LET Butterfly(s, u, v) ==
                 CxLoop([result EXCEPT ![s.even + 1] = CxAdd(u, v),
                                       ![s.odd + 1] = CxSub(u, v)],
                        steps, k + 1, rou)
             Step(s) ==
                 IF ~(InRange(rou, s.idx) /\ InRange(result, s.odd)
                      /\ InRange(result, s.even))
                 THEN Raise("IndexError")
                 ELSE Butterfly(s, At(result, s.even),
                                CxMul(At(result, s.odd), At(rou, s.idx)))
         IN Step(steps[k])

\* fft's twiddle index shifted one bit short
FftStage_shift(logm, log_num_coeffs, js) ==
    Flatten([jj \in 1..Len(js) |->
        [ii \in 1..Pow2(logm - 1) |->
            [even |-> js[jj] + (ii - 1),
             odd |-> js[jj] + (ii - 1) + Pow2(logm - 1),
             idx |-> (ii - 1) * Pow2(log_num_coeffs - logm)]]])

\* the butterflies of fft in loop order
FftStage(logm, log_num_coeffs, js) ==
    Flatten([jj \in 1..Len(js) |->
        [ii \in 1..Pow2(logm - 1) |->
            [even |-> js[jj] + (ii - 1),
             odd |-> js[jj] + (ii - 1) + Pow2(logm - 1),
             idx |-> (ii - 1) * Pow2(1 + log_num_coeffs - logm)]]])

FftSteps(num_coeffs) ==
    Flatten([logm \in 1..IntLog2(num_coeffs) |->
        FftStage(logm, IntLog2(num_coeffs), Range(0, num_coeffs, Pow2(logm)))])

fft(self, coeffs, rou) ==
    LET num_coeffs == Len(coeffs) IN
    IF Len(rou) # num_coeffs
    THEN Ret(Raise("TypeError"), coeffs, self, {}, {})
    ELSE LET Run(g, steps) ==
                 IF g.kind # "ok" THEN Ret(g, coeffs, self, {}, {})
                 ELSE Ret(CxLoop(g.value, steps, 1, rou), coeffs, self,
                          StepIdx(steps), {})
         IN Run(Gather(coeffs, self.reversed_bits), FftSteps(num_coeffs))

check_input(self, values) ==
    IF 4 * Len(values) = self.M
    THEN Ret(Ok(<<>>), values, self, {}, {})
    ELSE Ret(Raise("AssertionError"), values, self, {}, {})

\* ell = 2, 4, 8, ... while ell <= num_coeffs
RECURSIVE Doubling(_, _)
Doubling(ell, n) == IF ell > n THEN <<>> ELSE <<ell>> \o Doubling(2 * ell, n)

\* l = num_coeffs, l >> 1, ... while l >= 1
RECURSIVE Halving(_)
Halving(l) == IF l < 1 THEN <<>> ELSE <<l>> \o Halving(l \div 2)

\* the (i, j) pairs of one stage of block length ell, in loop order
BlockPairs(ell, is) ==
    Flatten([ii \in 1..Len(is) |->
        [jj \in 1..(ell \div 2) |-> [i |-> is[ii], j |-> jj - 1]]])

StagePairs(ell, n) == BlockPairs(ell, Range(0, n, ell))

FftFwdStage(ell, MoverLen, ellh, ps) ==
    [p \in 1..Len(ps) |->
        [even |-> ps[p].i + ps[p].j,
         odd |-> ps[p].i + ps[p].j + ellh,
         idx |-> ps[p].j * MoverLen]]

\* fft_inv's twiddle index with ell + j for ell - j
FftInvStage_plus(ell, MoverLen, ellh, ps) ==
    [p \in 1..Len(ps) |->
        [even |-> ps[p].i + ps[p].j,
         odd |-> ps[p].i + ps[p].j + ellh,
         idx |-> (ell + ps[p].j) * MoverLen]]

FftInvStage(ell, MoverLen, ellh, ps) ==
    [p \in 1..Len(ps) |->
        [even |-> ps[p].i + ps[p].j,
         odd |-> ps[p].i + ps[p].j + ellh,
         idx |-> (ell - ps[p].j) * MoverLen]]

FftFwdStages(ells, n, M) ==
    Flatten([e \in 1..Len(ells) |->
        FftFwdStage(ells[e], M \div ells[e], ells[e] \div 2, StagePairs(ells[e], n))])

FftInvStages(ells, n, M) ==
    Flatten([e \in 1..Len(ells) |->
        FftInvStage(ells[e], M \div ells[e], ells[e] \div 2, StagePairs(ells[e], n))])

FftFwdSteps(n, M) == FftFwdStages(Doubling(2, n), n, M)

FftInvSteps(n, M) == FftInvStages(Doubling(2, n), n, M)

fft_fwd(self, coeffs) ==
    LET Run(g, steps) ==
          IF g.kind # "ok" THEN Ret(g, coeffs, self, {}, {})
          ELSE Ret(CxLoop(g.value, steps, 1, self.roots_of_unity),
                   coeffs, self, StepIdx(steps), {})
    IN Run(Gather(coeffs, self.reversed_bits), FftFwdSteps(Len(coeffs), self.M))

fft_inv(self, coeffs) ==
    LET Scale(result, num_coeffs, reads) ==
          IF result.kind # "ok" THEN Ret(result, coeffs, self, reads, {})
          ELSE Ret(Ok([i \in 1..num_coeffs |-> CxDiv(result.value[i], num_coeffs)]),
                   coeffs, self, reads, {})
        Run(g, steps) ==
          IF g.kind # "ok" THEN Ret(g, coeffs, self, {}, {})
          ELSE Scale(CxLoop(g.value, steps, 1, self.roots_of_unity),
                     Len(coeffs), StepIdx(steps))
    IN Run(Gather(coeffs, self.reversed_bits), FftInvSteps(Len(coeffs), self.M))

\* emb / emb_inv: the butterflies read rot_group[j] to find the twiddle index
EmbStage(lh, lq, gap, ps) ==
    [p \in 1..Len(ps) |->
        [even |-> ps[p].i + ps[p].j,
         odd |-> ps[p].i + ps[p].j + lh,
         rot |-> ps[p].j, lq |-> lq, gap |-> gap]]

EmbSteps(ls, n, M) ==
    Flatten([e \in 1..Len(ls) |->
        EmbStage(ls[e] \div 2, 4 * ls[e], M \div (4 * ls[e]), StagePairs(ls[e], n))])

EmbRotReads(steps) == {steps[k].rot : k \in 1..Len(steps)}

EmbIdx(self, s) == (At(self.rot_group, s.rot) % s.lq) * s.gap

EmbInvIdx(self, s) == (s.lq - (At(self.rot_group, s.rot) % s.lq)) * s.gap

RECURSIVE EmbLoop(_, _, _, _)
EmbLoop(res, steps, k, self) ==
    IF k > Len(steps) THEN Ok(res)
    ELSE LET Butterfly(s, u, v) ==
                 EmbLoop([res EXCEPT ![s.even + 1] = CxAdd(u, v),
                                     ![s.odd + 1] = CxSub(u, v)],
                         steps, k + 1, self)
             Step(s) ==
                 IF ~InRange(self.rot_group, s.rot) THEN Raise("IndexError")
                 ELSE IF ~(InRange(self.roots_of_unity, EmbIdx(self, s))
                           /\ InRange(res, s.odd) /\ InRange(res, s.even))
                 THEN Raise("IndexError")
                 ELSE Butterfly(s, At(res, s.even),
                                CxMul(At(res, s.odd),
                                      At(self.roots_of_unity, EmbIdx(self, s))))
         IN Step(steps[k])

RECURSIVE EmbInvLoop(_, _, _, _)
EmbInvLoop(res, steps, k, self) ==
    IF k > Len(steps) THEN Ok(res)
    ELSE LET Step(s) ==
                 IF ~InRange(self.rot_group, s.rot) THEN Raise("IndexError")
                 ELSE IF ~(InRange(self.roots_of_unity, EmbInvIdx(self, s))
                           /\ InRange(res, s.odd) /\ InRange(res, s.even))
                 THEN Raise("IndexError")
                 ELSE EmbInvLoop(
                        [res EXCEPT
                           ![s.even + 1] = CxAdd(At(res, s.even), At(res, s.odd)),
                           ![s.odd + 1] =
                               CxMul(CxSub(At(res, s.even), At(res, s.odd)),
                                     At(self.roots_of_unity, EmbInvIdx(self, s)))],
                        steps, k + 1, self)
         IN Step(steps[k])

EmbRouReads(self, steps) ==
    {EmbIdx(self, steps[k]) :
        k \in {x \in 1..Len(steps) : InRange(self.rot_group, steps[x].rot)}}

EmbInvRouReads(self, steps) ==
    {EmbInvIdx(self, steps[k]) :
        k \in {x \in 1..Len(steps) : InRange(self.rot_group, steps[x].rot)}}

emb(self, coeffs) ==
    LET Run(steps) ==
          Ret(EmbLoop(bit_reverse_vec(coeffs), steps, 1, self),
              coeffs, self, EmbRouReads(self, steps), EmbRotReads(steps))
    IN Run(EmbSteps(Doubling(2, Len(coeffs)), Len(coeffs), self.M))

\* emb_inv without the final bit reversal
emb_inv_no_bitrev(self, coeffs) ==
    LET Scale(to_scale_down, num_coeffs) ==
          Ok([i \in 1..num_coeffs |-> CxDiv(to_scale_down[i], num_coeffs)])
        Finish(res, steps) ==
          IF res.kind # "ok"
          THEN Ret(res, coeffs, self, EmbInvRouReads(self, steps), EmbRotReads(steps))
          ELSE Ret(Scale(res.value, Len(coeffs)),
                   coeffs, self, EmbInvRouReads(self, steps), EmbRotReads(steps))
        Run(steps) == Finish(EmbInvLoop(coeffs, steps, 1, self), steps)
    IN Run(EmbSteps(Halving(Len(coeffs)), Len(coeffs), self.M))

\* emb_inv working on the caller's list instead of a copy of it
emb_inv_inplace(self, coeffs) ==
    LET Scale(to_scale_down, num_coeffs) ==
          Ok([i \in 1..num_coeffs |-> CxDiv(to_scale_down[i], num_coeffs)])
        Finish(res, steps) ==
          IF res.kind # "ok"
          THEN Ret(res, coeffs, self, EmbInvRouReads(self, steps), EmbRotReads(steps))
          ELSE Ret(Scale(bit_reverse_vec(res.value), Len(coeffs)),
                   res.value, self, EmbInvRouReads(self, steps), EmbRotReads(steps))
        Run(steps) == Finish(EmbInvLoop(coeffs, steps, 1, self), steps)
    IN Run(EmbSteps(Halving(Len(coeffs)), Len(coeffs), self.M))

emb_inv(self, coeffs) ==
    LET Scale(to_scale_down, num_coeffs) ==
          Ok([i \in 1..num_coeffs |-> CxDiv(to_scale_down[i], num_coeffs)])
        Finish(res, steps) ==
          IF res.kind # "ok"
          THEN Ret(res, coeffs, self, EmbInvRouReads(self, steps), EmbRotReads(steps))
          ELSE Ret(Scale(bit_reverse_vec(res.value), Len(coeffs)),
                   coeffs, self, EmbInvRouReads(self, steps), EmbRotReads(steps))
        Run(steps) == Finish(EmbInvLoop(coeffs, steps, 1, self), steps)
    IN Run(EmbSteps(Halving(Len(coeffs)), Len(coeffs), self.M))

\* ------------------------------------------------------------ the callers
VARIABLES
    ctx,      \* the context object: [cls |-> "none"] before construction
    ctor,     \* the constructor call that made it, with its arguments
    input,    \* the list the caller passes to its next call
    calls,    \* the calls made on the loaded input, oldest first
    product   \* the last polynomial multiplication done through the FTT

vars == <<ctx, ctor, input, calls, product>>

NoProduct == [set |-> FALSE]

Init ==
    /\ ctx = [cls |-> "none"]
    /\ ctor = [cls |-> "none"]
    /\ input = <<>>
    /\ calls = <<>>
    /\ product = NoProduct

\* integer coefficient lists and complex lists the callers pass
IntInputs == UNION {[1..n -> 0..MaxCoeff] : n \in Lens}

\* the complex numbers c + c i, c in 0..MaxCoeff (i = zeta^(M/4))
CxValues(M) ==
    {[num |-> [k \in 1..(M \div 2) |->
                 IF k = 1 \/ k = (M \div 4) + 1 THEN c ELSE 0],
      den |-> 1] : c \in 0..MaxCoeff}

CxInputs(M) == UNION {[1..n -> CxValues(M)] : n \in Lens}

\* twiddle tables a caller passes to ntt: w^i, w^-i, and one entry short
NttTables(self) ==
    {self.roots_of_unity, self.roots_of_unity_inv,
     SubSeq(self.roots_of_unity, 1, self.degree - 1)}

\* twiddle tables a caller passes to fft for n coefficients:
\* rou[k] = e^(2 pi i 2k / M), and the same one entry short
FftTable(n, M) == [k \in 1..n |-> RootOfUnity(2 * (k - 1), M)]

FftTables(n, M) == {FftTable(n, M), FftTable(n - 1, M)}

NewNTTContext ==
    /\ ctx.cls = "none"
    /\ \E poly_degree \in 0..MaxDegree, coeff_modulus \in Moduli, root_arg \in RootArgs :
         \E w \in RootChoices(poly_degree, coeff_modulus, root_arg) :
            /\ ctx' = NTTContext_init(poly_degree, coeff_modulus, root_arg, w)
            /\ ctor' = [cls |-> "NTTContext", poly_degree |-> poly_degree,
                        coeff_modulus |-> coeff_modulus, root_of_unity |-> root_arg,
                        root |-> IF root_arg = None \/ root_arg = 0 THEN w ELSE root_arg]
    /\ UNCHANGED <<input, calls, product>>

NewFFTContext ==
    /\ ctx.cls = "none"
    /\ \E M \in Ms :
         /\ ctx' = FFTContext_init(M)
         /\ ctor' = [cls |-> "FFTContext", M |-> M]
    /\ UNCHANGED <<input, calls, product>>

\* a caller that has done nothing yet
Fresh == input = <<>> /\ calls = <<>> /\ ~product.set

Load ==
    /\ ctx.cls \in {"NTTContext", "FFTContext"}
    /\ Fresh
    /\ \E c \in (IF ctx.cls = "NTTContext" THEN IntInputs ELSE CxInputs(ctx.M)) :
         input' = c
    /\ UNCHANGED <<ctx, ctor, calls, product>>

CanCall(cls) ==
    /\ ctx.cls = cls
    /\ input # <<>>
    /\ Len(calls) < MaxCalls
    /\ calls # <<>> => calls[Len(calls)].kind = "ok"

\* the caller makes the call, keeps what it returned and passes that on
Called(op, rou, r) ==
    /\ calls' = Append(calls,
          [op |-> op, coeffs |-> input, rou |-> rou, kind |-> r.kind, value |-> r.value,
           after |-> r.after, rou_reads |-> r.rou_reads, rot_reads |-> r.rot_reads])
    /\ input' = IF r.kind = "ok" /\ op # "check_input" THEN r.value ELSE r.after
    /\ ctx' = r.self
    /\ UNCHANGED <<ctor, product>>

Ntt ==
    /\ CanCall("NTTContext")
    /\ \E rou \in NttTables(ctx) : Called("ntt", rou, ntt(ctx, input, rou))

FttFwd == CanCall("NTTContext") /\ Called("ftt_fwd", <<>>, ftt_fwd(ctx, input))

FttInv == CanCall("NTTContext") /\ Called("ftt_inv", <<>>, ftt_inv(ctx, input))

Fft ==
    /\ CanCall("FFTContext")
    /\ \E rou \in FftTables(Len(input), ctx.M) : Called("fft", rou, fft(ctx, input, rou))

CheckInput == CanCall("FFTContext") /\ Called("check_input", <<>>, check_input(ctx, input))

FftFwd == CanCall("FFTContext") /\ Called("fft_fwd", <<>>, fft_fwd(ctx, input))

FftInv == CanCall("FFTContext") /\ Called("fft_inv", <<>>, fft_inv(ctx, input))

Emb == CanCall("FFTContext") /\ Called("emb", <<>>, emb(ctx, input))

EmbInv == CanCall("FFTContext") /\ Called("emb_inv", <<>>, emb_inv(ctx, input))

\* a polynomial multiplication through the transform: both operands forward,
\* the pointwise product modulo the modulus, then the inverse
Multiply ==
    /\ ctx.cls = "NTTContext"
    /\ Fresh
    /\ \E p \in [1..ctx.degree -> 0..MaxCoeff], q \in [1..ctx.degree -> 0..MaxCoeff] :
         LET Done(a, b, ab, prod) ==
                 /\ product' = [set |-> TRUE, p |-> p, q |-> q, a |-> a.value,
                                b |-> b.value, ab |-> ab, kind |-> prod.kind,
                                prod |-> prod.value,
                                after |-> <<a.after, b.after, prod.after>>]
                 /\ ctx' = prod.self
             Inverse(a, b, ab) == Done(a, b, ab, ftt_inv(b.self, ab))
             Pointwise(a, b) ==
                 Inverse(a, b, [i \in 1..ctx.degree |->
                                  (a.value[i] * b.value[i]) % ctx.coeff_modulus])
             Second(a) == Pointwise(a, ftt_fwd(a.self, q))
         IN Second(ftt_fwd(ctx, p))
    /\ UNCHANGED <<ctor, input, calls>>

Next ==
    \/ NewNTTContext
    \/ NewFFTContext
    \/ Load
    \/ Ntt
    \/ FttFwd
    \/ FttInv
    \/ Fft
    \/ CheckInput
    \/ FftFwd
    \/ FftInv
    \/ Emb
    \/ EmbInv
    \/ Multiply

Spec == Init /\ [][Next]_vars

\* ------------------------------------------------------------- the claims
IsPow2(n) == \E k \in 0..n : n = Pow2(k)

IsPrime(a) == a >= 2 /\ \A k \in 2..(a - 1) : a % k # 0

IsNTT == ctx.cls = "NTTContext"

IsFFT == ctx.cls = "FFTContext"

\* w has exact multiplicative order n modulo a
HasOrder(w, n, a) ==
    /\ ModExp(w, n, a) = 1 % a
    /\ \A k \in 1..(n - 1) : ModExp(w, k, a) # 1 % a

\* the root the context was built with has exact order 2d modulo the modulus
RootHasOrder2d == HasOrder(ctor.root, 2 * ctx.degree, ctx.coeff_modulus)

\* call k succeeded with op1 and the caller passed its result to op2 as call k + 1
Chained(k, op1, op2) ==
    /\ k + 1 <= Len(calls)
    /\ calls[k].op = op1
    /\ calls[k].kind = "ok"
    /\ calls[k + 1].op = op2

\* the naive O(d^2) product modulo x^d + 1 and modulo a
NegacyclicMul(p, q, d, a) ==
    [k \in 1..d |->
        SumTo([i \in 1..d |->
                 IF i <= k THEN p[i] * q[k - i + 1]
                 ELSE 0 - p[i] * q[d + k - i + 1]], d) % a]

\* C1: in a context whose root has exact order 2d, ftt_inv of the result of
\* ftt_fwd(coeffs), len(coeffs) = d, is coeffs modulo a, index by index.
C1_FttRoundTrip ==
    (IsNTT /\ RootHasOrder2d) =>
        \A k \in 1..Len(calls) :
            Chained(k, "ftt_fwd", "ftt_inv") =>
                /\ calls[k + 1].kind = "ok"
                /\ Len(calls[k + 1].value) = ctx.degree
                /\ \A i \in 1..ctx.degree :
                      calls[k + 1].value[i] = calls[k].coeffs[i] % ctx.coeff_modulus

C1_Witness ==
    /\ IsNTT /\ RootHasOrder2d /\ ctx.degree = 4
    /\ Chained(1, "ftt_fwd", "ftt_inv")
    /\ calls[2].kind = "ok"
    /\ calls[1].coeffs = <<0, 1, 0, 1>>
    /\ calls[1].value # calls[1].coeffs

\* C2 as claimed: in every context whose root has exact order 2d, the inverse
\* of the pointwise product of the two forward transforms is the negacyclic
\* product of the operands.
C2_Original ==
    (IsNTT /\ RootHasOrder2d /\ product.set) =>
        /\ product.kind = "ok"
        /\ product.prod =
              NegacyclicMul(product.p, product.q, ctx.degree, ctx.coeff_modulus)

\* C2 as amended: the same, for a prime modulus.
C2_Convolution ==
    (IsNTT /\ RootHasOrder2d /\ IsPrime(ctx.coeff_modulus) /\ product.set) =>
        /\ product.kind = "ok"
        /\ product.prod =
              NegacyclicMul(product.p, product.q, ctx.degree, ctx.coeff_modulus)

C2_Witness ==
    /\ IsNTT /\ RootHasOrder2d /\ IsPrime(ctx.coeff_modulus) /\ ctx.degree = 4
    /\ product.set
    /\ product.p = <<0, 1, 1, 1>>
    /\ product.q = <<0, 0, 1, 1>>
    /\ product.prod = <<15, 15, 16, 1>>

\* C3 as claimed: for every power-of-two length n, M/4 or not, fft_fwd returns
\* and fft_inv of its result is the vector it was given.
C3_Claim ==
    IsFFT =>
        \A k \in 1..Len(calls) :
            /\ calls[k].op = "fft_fwd" => calls[k].kind = "ok"
            /\ Chained(k, "fft_fwd", "fft_inv") =>
                  /\ calls[k + 1].kind = "ok"
                  /\ CxSeqEq(calls[k + 1].value, calls[k].coeffs)

\* C4: for an input of length M/4, emb_inv of the result of emb is the input,
\* element by element.
C4_EmbRoundTrip ==
    IsFFT =>
        \A k \in 1..Len(calls) :
            (Chained(k, "emb", "emb_inv") /\ 4 * Len(calls[k].coeffs) = ctx.M) =>
                /\ calls[k + 1].kind = "ok"
                /\ CxSeqEq(calls[k + 1].value, calls[k].coeffs)

C4_Witness ==
    /\ IsFFT /\ ctx.M = 16
    /\ Chained(1, "emb", "emb_inv")
    /\ calls[2].kind = "ok"
    /\ Len(calls[1].coeffs) = 4
    /\ calls[1].coeffs[1].num[1] = 0
    /\ calls[1].coeffs[2].num[1] = 1
    /\ calls[1].coeffs[3].num[1] = 0
    /\ calls[1].coeffs[4].num[1] = 0
    /\ ~CxSeqEq(calls[1].value, calls[1].coeffs)

\* C5 as claimed: a degree that is not a power of two (0 included) fails the
\* constructor's own assertion, before any collaborator call or table.
C5_Claim ==
    (ctor.cls = "NTTContext" /\ ~IsPow2(ctor.poly_degree)) =>
        /\ ctx.cls = "error"
        /\ ctx.error = "AssertionError"
        /\ ctx.steps = <<>>

\* C6 as claimed: ntt with len(rou) # len(coeffs) fails with the assertion
\* error and no other.
C6_Claim ==
    IsNTT =>
        \A k \in 1..Len(calls) :
            (calls[k].op = "ntt" /\ Len(calls[k].rou) # Len(calls[k].coeffs)) =>
                calls[k].kind = "AssertionError"

\* C7 as claimed: in every constructed context (degree >= 2, so that
\* roots_of_unity[1] exists) the root stored there has exact order 2d.
C7_Original ==
    (IsNTT /\ ctx.degree >= 2) =>
        HasOrder(At(ctx.roots_of_unity, 1), 2 * ctx.degree, ctx.coeff_modulus)

FromCollaborator == ctor.root_of_unity = None \/ ctor.root_of_unity = 0

\* C7 as amended: the same, when the root came from the collaborator.
C7_CollaboratorRoot ==
    (IsNTT /\ ctx.degree >= 2 /\ FromCollaborator) =>
        HasOrder(At(ctx.roots_of_unity, 1), 2 * ctx.degree, ctx.coeff_modulus)

C7_Witness ==
    /\ IsNTT /\ ctx.degree = 4 /\ ctor.root_of_unity = None
    /\ At(ctx.roots_of_unity, 1) = 9

TransformOps == {"fft_fwd", "fft_inv", "emb", "emb_inv"}

\* C9: on an input of length M/4, fft_fwd, fft_inv, emb and emb_inv read
\* roots_of_unity only at indices in [0, M] and rot_group only at indices in
\* [0, M/4), and fft_inv reads roots_of_unity[M] when the length is >= 2.
C9_TwiddleBound ==
    IsFFT =>
        \A k \in 1..Len(calls) :
            (calls[k].op \in TransformOps /\ 4 * Len(calls[k].coeffs) = ctx.M) =>
                /\ calls[k].rou_reads \subseteq 0..ctx.M
                /\ calls[k].rot_reads \subseteq 0..((ctx.M \div 4) - 1)
                /\ (calls[k].op = "fft_inv" /\ Len(calls[k].coeffs) >= 2) =>
                      ctx.M \in calls[k].rou_reads

C9_Witness ==
    /\ IsFFT /\ ctx.M = 16
    /\ Len(calls) = 2
    /\ calls[1].op = "emb_inv" /\ calls[1].rou_reads = {11, 14, 15}
    /\ calls[1].rot_reads = {0, 1}
    /\ calls[2].op = "fft_inv" /\ calls[2].rou_reads = {12, 16}

\* the table of the claim: rou[k] = roots_of_unity[2k], k in [0, n)
IsStride2Table(rou, n) ==
    /\ Len(rou) = n
    /\ \A k \in 0..(n - 1) :
          InRange(ctx.roots_of_unity, 2 * k) /\ At(rou, k) = At(ctx.roots_of_unity, 2 * k)

SameOutcome(r1, r2) ==
    /\ r1.kind = "ok"
    /\ r2.kind = "ok"
    /\ CxSeqEq(r1.value, r2.value)

\* C10: on an input of length n = M/4, fft with rou[k] = roots_of_unity[2k]
\* returns what fft_fwd returns on that input, element for element.
C10_FftEquivalence ==
    IsFFT =>
        \A k \in 1..Len(calls) :
            (/\ calls[k].op = "fft"
             /\ 4 * Len(calls[k].coeffs) = ctx.M
             /\ IsStride2Table(calls[k].rou, Len(calls[k].coeffs))) =>
                SameOutcome(calls[k], fft_fwd(ctx, calls[k].coeffs))

C10_Witness ==
    /\ IsFFT /\ ctx.M = 16
    /\ Len(calls) = 1
    /\ calls[1].op = "fft" /\ calls[1].kind = "ok"
    /\ IsStride2Table(calls[1].rou, 4)
    /\ calls[1].coeffs[1].num[1] = 0
    /\ calls[1].coeffs[2].num[1] = 1
    /\ calls[1].coeffs[3].num[1] = 1
    /\ calls[1].coeffs[4].num[1] = 0
    /\ ~CxSeqEq(calls[1].value, calls[1].coeffs)

====
